---- MODULE Spec2Model ----
(***************************************************************************)
(* Signup lifecycle and capacity allocation of the event platform          *)
(* (signup.service.ts): createSignup, approveSignup, declineSignup,        *)
(* cancelSignup, checkInSignup, checkInByEventToken and promoteWaitlist    *)
(* over the eventSignup / event / user / caregiverStudent tables.          *)
(*                                                                         *)
(* Spec      every service call is one atomic step (serialized requests).  *)
(* SpecConc  every store read and every store write of a call is a step of *)
(*           its own, calls of different requests interleave.              *)
(***************************************************************************)
EXTENDS Integers, Sequences, FiniteSets, TLC

VARIABLES
    events,     \* event table: id -> row (capacity, requiresApproval, allowWaitlist, endTime)
    signups,    \* eventSignup table: sequence of rows, the row's id is its index
    now,        \* the clock read by new Date() and by the createdAt default
    last,       \* the last finished service call and its outcome
    calls,      \* calls counted against the bound: serialized, the calls that changed
                \* the eventSignup table; concurrent, the requests started
    procs       \* in-flight requests (SpecConc): per request slot, position and locals

vars == <<events, signups, now, last, calls, procs>>

----------------------------------------------------------------------------
(* Bounds *)

NumStudents == 3
MaxCapacity == 2
MaxTime == 2
NumProcs == 2
MaxCalls == 4
MaxRequests == 3
MaxBulk == 3
MaxBulkCalls == 2

----------------------------------------------------------------------------
(* Values *)

NULL == -1

PENDING == "PENDING"
APPROVED == "APPROVED"
WAITLISTED == "WAITLISTED"
DECLINED == "DECLINED"
CANCELLED == "CANCELLED"
CHECKED_IN == "CHECKED_IN"

SignupStatus == {PENDING, APPROVED, WAITLISTED, DECLINED, CANCELLED, CHECKED_IN}

STUDENT == "STUDENT"
CAREGIVER == "CAREGIVER"
STAFF == "STAFF"

ErrEventNotFound == "Event not found"
ErrPastEvent == "Cannot sign up for a past event"
ErrAlreadySignedUp == "User is already signed up for this event"
ErrAtCapacity == "Event is at capacity"
ErrSignupNotFound == "Signup not found"
ErrUserNotFound == "User not found"
ErrNoPermission == "You do not have permission to cancel this signup"
ErrCannotApprove == "Cannot approve a cancelled or declined signup"
ErrOnlyApproved == "Only approved signups can be checked in"
ErrOnlyCaregivers == "Only caregivers can perform this action"
ErrInvalidStudent == "Invalid student ID"
ErrNotLinked == "Caregiver is not linked to this student"
ErrTransaction == "Transaction failed"
ErrUniqueConstraint == "Unique constraint failed on the fields: (userId,eventId)"
OK == "ok"

NoNote == "<null>"
NoteWaitlist == "Auto-moved to waitlist (capacity reached)."
NotePromoted == "Auto-promoted from waitlist."
NoteUndefined == "<undefined>"
NoteInputs == {NoteUndefined, "", "No space left"}

\* user table: students 1..NumStudents, one caregiver, one staff member
Students == 1..NumStudents
CaregiverId == NumStudents + 1
StaffId == NumStudents + 2
Users == Students \cup {CaregiverId, StaffId}
MissingUserId == NumStudents + 3

Role(u) == IF u \in Students THEN STUDENT ELSE IF u = CaregiverId THEN CAREGIVER ELSE STAFF

\* caregiverStudent table: the caregiver is linked to student 1 only
caregiverStudent == {<<CaregiverId, 1>>}

Time == 0..MaxTime
Capacities == {NULL} \cup (1..MaxCapacity)

EventRows == [capacity : Capacities, requiresApproval : BOOLEAN,
              allowWaitlist : BOOLEAN, endTime : {MaxTime - 1}]

EventIds == {1, 2}

\* event.createdById: the events were created by the caregiver (caregivers and staff
\* may create events)
createdById == [e \in EventIds |-> CaregiverId]
MissingEventId == 0

SignupRows == [userId : Users, eventId : EventIds, signedUpById : Users \cup {NULL},
               status : SignupStatus, createdAt : Time, approvedAt : Time \cup {NULL},
               approvedById : Users \cup {NULL}, cancelledAt : Time \cup {NULL},
               checkedInAt : Time \cup {NULL},
               statusNote : {NoNote, NoteWaitlist, NotePromoted} \cup NoteInputs]

----------------------------------------------------------------------------
(* Store queries and row writes *)

Range(q) == {q[i] : i \in DOMAIN q}

\* prisma.eventSignup.findUnique({ where: { userId_eventId } }): the row's id, or NULL
getExistingSignup(S, userId, eventId) ==
    LET found == {i \in DOMAIN S : S[i].userId = userId /\ S[i].eventId = eventId}
    IN  IF found = {} THEN NULL ELSE CHOOSE i \in found : TRUE

\* faulty variant (sensitivity of the properties): the count forgets the CHECKED_IN rows
approvedCountOnlyApproved(S, eventId) ==
    Cardinality({i \in DOMAIN S : S[i].eventId = eventId /\ S[i].status = APPROVED})

\* prisma.eventSignup.count({ where: { eventId, status: { in: [APPROVED, CHECKED_IN] } } })
approvedCount(S, eventId) ==
    Cardinality({i \in DOMAIN S : S[i].eventId = eventId
                                  /\ S[i].status \in {APPROVED, CHECKED_IN}})

\* faulty variant (sensitivity of the properties): the capacity test is off by one (> for >=)
createStatusOffByOne(event, count) ==
    IF event.requiresApproval THEN PENDING
    ELSE IF event.capacity # NULL /\ count > event.capacity
         THEN IF event.allowWaitlist THEN WAITLISTED ELSE ErrAtCapacity
         ELSE APPROVED

\* the status createSignup decides on, or the error it throws
createStatus(event, count) ==
    IF event.requiresApproval THEN PENDING
    ELSE IF event.capacity # NULL /\ count >= event.capacity
         THEN IF event.allowWaitlist THEN WAITLISTED ELSE ErrAtCapacity
         ELSE APPROVED

\* data of prisma.eventSignup.update in createSignup (re-signup on the existing row)
\* faulty variant (sensitivity of the properties): the reset leaves the cancellation time
resetRowKeepsCancelledAt(row, signedUpById, status, t) ==
    [row EXCEPT !.signedUpById = signedUpById,
                !.status = status,
                !.approvedAt = IF status = APPROVED THEN t ELSE NULL,
                !.statusNote = NoNote]

\* faulty variant (sensitivity of the properties): the reset stamps the row as created now
resetRowRestamps(row, signedUpById, status, t) ==
    [row EXCEPT !.signedUpById = signedUpById,
                !.status = status,
                !.createdAt = t,
                !.approvedAt = IF status = APPROVED THEN t ELSE NULL,
                !.cancelledAt = NULL,
                !.statusNote = NoNote]

resetRow(row, signedUpById, status, t) ==
    [row EXCEPT !.signedUpById = signedUpById,
                !.status = status,
                !.approvedAt = IF status = APPROVED THEN t ELSE NULL,
                !.cancelledAt = NULL,
                !.statusNote = NoNote]

\* data of prisma.eventSignup.create in createSignup
newRow(userId, eventId, signedUpById, status, t) ==
    [userId |-> userId, eventId |-> eventId, signedUpById |-> signedUpById,
     status |-> status, createdAt |-> t,
     approvedAt |-> IF status = APPROVED THEN t ELSE NULL,
     approvedById |-> NULL, cancelledAt |-> NULL, checkedInAt |-> NULL,
     statusNote |-> NoNote]

\* faulty variant (sensitivity of the properties): the table has no unique key
uniqueViolationNever(S, row) == FALSE

\* the unique key (userId, eventId) of the eventSignup table
uniqueViolation(S, row) ==
    \E i \in DOMAIN S : S[i].userId = row.userId /\ S[i].eventId = row.eventId

\* faulty variant (sensitivity of the properties): approveSignup never looks at the capacity
approveStatusAlways(event, count) == APPROVED

\* approveSignup: what it decides from the recomputed count
approveStatus(event, count) ==
    IF event.capacity # NULL /\ count >= event.capacity
    THEN IF event.allowWaitlist THEN WAITLISTED ELSE ErrAtCapacity
    ELSE APPROVED

\* data of the two prisma.eventSignup.update calls of approveSignup
approveRow(row, status, approverId, t) ==
    IF status = WAITLISTED
    THEN [row EXCEPT !.status = WAITLISTED, !.statusNote = NoteWaitlist]
    ELSE [row EXCEPT !.status = APPROVED, !.approvedById = approverId,
                     !.approvedAt = t, !.statusNote = NoNote]

\* note || null
noteOrNull(note) == IF note = NoteUndefined \/ note = "" THEN NoNote ELSE note

declineRow(row, note, t) ==
    [row EXCEPT !.status = DECLINED, !.statusNote = noteOrNull(note), !.cancelledAt = t]

cancelRow(row, t) ==
    [row EXCEPT !.status = CANCELLED, !.cancelledAt = t]

checkInRow(row, t) ==
    [row EXCEPT !.status = CHECKED_IN, !.checkedInAt = t]

promoteRow(row, t) ==
    [row EXCEPT !.status = APPROVED, !.approvedAt = t, !.statusNote = NotePromoted]

\* canCancel of cancelSignup
canCancel(row, userId) ==
    \/ Role(userId) = STAFF
    \/ row.userId = userId
    \/ row.signedUpById = userId
    \/ (Role(userId) = CAREGIVER /\ <<userId, row.userId>> \in caregiverStudent)

----------------------------------------------------------------------------
(* promoteWaitlist *)

\* faulty variant (sensitivity of the properties): the early return forgets requiresApproval
promoteSkipsForgetsApproval(E, eventId) ==
    \/ eventId \notin DOMAIN E
    \/ ~E[eventId].allowWaitlist
    \/ E[eventId].capacity = NULL
    \/ E[eventId].capacity = 0

\* faulty variant (sensitivity of the properties): the early return is taken when the waitlist is allowed
promoteSkipsWaitlist(E, eventId) ==
    \/ eventId \notin DOMAIN E
    \/ E[eventId].requiresApproval
    \/ E[eventId].allowWaitlist
    \/ E[eventId].capacity = NULL
    \/ E[eventId].capacity = 0

\* the early returns of promoteWaitlist on the event row (!event.capacity: null or 0)
promoteSkips(E, eventId) ==
    \/ eventId \notin DOMAIN E
    \/ E[eventId].requiresApproval
    \/ ~E[eventId].allowWaitlist
    \/ E[eventId].capacity = NULL
    \/ E[eventId].capacity = 0

\* faulty variant (sensitivity of the properties): orderBy createdAt "desc"
orderedByCreatedAtDesc(S, ids) ==
    {q \in [1..Cardinality(ids) -> ids] :
        /\ \A i, j \in DOMAIN q : i # j => q[i] # q[j]
        /\ \A i, j \in DOMAIN q : i < j => S[q[i]].createdAt >= S[q[j]].createdAt}

\* findMany({ where: { eventId, status: WAITLISTED }, orderBy: { createdAt: "asc" }, take })
\* every result the store may return: rows of equal createdAt come in any order
orderedByCreatedAt(S, ids) ==
    {q \in [1..Cardinality(ids) -> ids] :
        /\ \A i, j \in DOMAIN q : i # j => q[i] # q[j]
        /\ \A i, j \in DOMAIN q : i < j => S[q[i]].createdAt <= S[q[j]].createdAt}

take(q, n) == [i \in 1..(IF n < Len(q) THEN n ELSE Len(q)) |-> q[i]]

\* faulty variant (sensitivity of the properties): the where clause of findMany forgets the event
findWaitlistedAnyEvent(S, eventId, slots) ==
    LET ids == {i \in DOMAIN S : S[i].status = WAITLISTED}
    IN  {take(q, slots) : q \in orderedByCreatedAt(S, ids)}

\* faulty variant (sensitivity of the properties): the where clause of findMany forgets the status
findWaitlistedAnyStatus(S, eventId, slots) ==
    LET ids == {i \in DOMAIN S : S[i].eventId = eventId}
    IN  {take(q, slots) : q \in orderedByCreatedAt(S, ids)}

findWaitlisted(S, eventId, slots) ==
    LET ids == {i \in DOMAIN S : S[i].eventId = eventId /\ S[i].status = WAITLISTED}
    IN  {take(q, slots) : q \in orderedByCreatedAt(S, ids)}

\* faulty variant (sensitivity of the properties): only the first update of the batch is applied
promoteAllFirstOnly(S, waitlisted, t) ==
    [i \in DOMAIN S |-> IF Len(waitlisted) > 0 /\ i = waitlisted[1]
                        THEN promoteRow(S[i], t) ELSE S[i]]

\* the $transaction of updates over the selected rows
promoteAll(S, waitlisted, t) ==
    [i \in DOMAIN S |-> IF i \in Range(waitlisted) THEN promoteRow(S[i], t) ELSE S[i]]

\* every table promoteWaitlist(eventId) may leave, run without interruption
promoteWaitlist(S, E, eventId, t) ==
    IF promoteSkips(E, eventId) THEN {S}
    ELSE LET slots == E[eventId].capacity - approvedCount(S, eventId)
         IN  IF slots <= 0 THEN {S}
             ELSE {promoteAll(S, w, t) : w \in findWaitlisted(S, eventId, slots)}

----------------------------------------------------------------------------
(* The service calls, each run without interruption: what a call returns   *)
(* (err) and the table it leaves (signups), from table S, events E, time t *)

Result(err, S, id) == [err |-> err, signups |-> S, id |-> id]

setRow(S, id, row) == [S EXCEPT ![id] = row]

\* faulty variant (sensitivity of the properties): the existing signup is looked up before the end-time check
createSignupResultExistingFirst(S, E, t, userId, eventId, signedUpById) ==
    IF eventId \notin DOMAIN E THEN Result(ErrEventNotFound, S, NULL)
    ELSE LET existing == getExistingSignup(S, userId, eventId) IN
    IF existing # NULL /\ S[existing].status \notin {CANCELLED, DECLINED}
    THEN Result(ErrAlreadySignedUp, S, existing)
    ELSE IF t > E[eventId].endTime THEN Result(ErrPastEvent, S, NULL)
    ELSE LET status == createStatus(E[eventId], approvedCount(S, eventId)) IN
    IF status = ErrAtCapacity THEN Result(ErrAtCapacity, S, existing)
    ELSE IF existing # NULL
    THEN Result(OK, setRow(S, existing, resetRow(S[existing], signedUpById, status, t)),
                existing)
    ELSE Result(OK, Append(S, newRow(userId, eventId, signedUpById, status, t)), Len(S) + 1)

\* faulty variant (sensitivity of the properties): a re-signup creates a second row
createSignupResultAppends(S, E, t, userId, eventId, signedUpById) ==
    IF eventId \notin DOMAIN E THEN Result(ErrEventNotFound, S, NULL)
    ELSE IF t > E[eventId].endTime THEN Result(ErrPastEvent, S, NULL)
    ELSE LET existing == getExistingSignup(S, userId, eventId) IN
    IF existing # NULL /\ S[existing].status \notin {CANCELLED, DECLINED}
    THEN Result(ErrAlreadySignedUp, S, existing)
    ELSE LET status == createStatus(E[eventId], approvedCount(S, eventId)) IN
    IF status = ErrAtCapacity THEN Result(ErrAtCapacity, S, existing)
    ELSE Result(OK, Append(S, newRow(userId, eventId, signedUpById, status, t)), Len(S) + 1)

createSignupResult(S, E, t, userId, eventId, signedUpById) ==
    IF eventId \notin DOMAIN E THEN Result(ErrEventNotFound, S, NULL)
    ELSE IF t > E[eventId].endTime THEN Result(ErrPastEvent, S, NULL)
    ELSE LET existing == getExistingSignup(S, userId, eventId) IN
    IF existing # NULL /\ S[existing].status \notin {CANCELLED, DECLINED}
    THEN Result(ErrAlreadySignedUp, S, existing)
    ELSE LET status == createStatus(E[eventId], approvedCount(S, eventId)) IN
    IF status = ErrAtCapacity THEN Result(ErrAtCapacity, S, existing)
    ELSE IF existing # NULL
    THEN Result(OK, setRow(S, existing, resetRow(S[existing], signedUpById, status, t)),
                existing)
    ELSE Result(OK, Append(S, newRow(userId, eventId, signedUpById, status, t)), Len(S) + 1)

\* faulty variant (sensitivity of the properties): only a cancelled signup is refused
approveSignupResultRevives(S, E, t, signupId, approverId) ==
    IF signupId \notin DOMAIN S THEN Result(ErrSignupNotFound, S, NULL)
    ELSE IF S[signupId].status = CANCELLED
    THEN Result(ErrCannotApprove, S, signupId)
    ELSE LET eventId == S[signupId].eventId
             status == approveStatus(E[eventId], approvedCount(S, eventId)) IN
    IF status = ErrAtCapacity THEN Result(ErrAtCapacity, S, signupId)
    ELSE Result(OK, setRow(S, signupId, approveRow(S[signupId], status, approverId, t)),
                signupId)

approveSignupResult(S, E, t, signupId, approverId) ==
    IF signupId \notin DOMAIN S THEN Result(ErrSignupNotFound, S, NULL)
    ELSE IF S[signupId].status \in {CANCELLED, DECLINED}
    THEN Result(ErrCannotApprove, S, signupId)
    ELSE LET eventId == S[signupId].eventId
             status == approveStatus(E[eventId], approvedCount(S, eventId)) IN
    IF status = ErrAtCapacity THEN Result(ErrAtCapacity, S, signupId)
    ELSE Result(OK, setRow(S, signupId, approveRow(S[signupId], status, approverId, t)),
                signupId)

declineSignupResults(S, E, t, signupId, note) ==
    IF signupId \notin DOMAIN S THEN {Result(ErrSignupNotFound, S, NULL)}
    ELSE LET updated == setRow(S, signupId, declineRow(S[signupId], note, t))
         IN  {Result(OK, P, signupId) : P \in promoteWaitlist(updated, E, S[signupId].eventId, t)}

cancelSignupResults(S, E, t, signupId, userId) ==
    IF signupId \notin DOMAIN S THEN {Result(ErrSignupNotFound, S, NULL)}
    ELSE IF userId \notin Users THEN {Result(ErrUserNotFound, S, signupId)}
    ELSE IF ~canCancel(S[signupId], userId) THEN {Result(ErrNoPermission, S, signupId)}
    ELSE LET updated == setRow(S, signupId, cancelRow(S[signupId], t))
         IN  {Result(OK, P, signupId) : P \in promoteWaitlist(updated, E, S[signupId].eventId, t)}

\* faulty variant (sensitivity of the properties): only cancelled and declined signups are refused
checkInSignupResultLax(S, t, signupId) ==
    IF signupId \notin DOMAIN S THEN Result(ErrSignupNotFound, S, NULL)
    ELSE IF S[signupId].status \in {CANCELLED, DECLINED}
    THEN Result(ErrOnlyApproved, S, signupId)
    ELSE IF S[signupId].status = CHECKED_IN THEN Result(OK, S, signupId)
    ELSE Result(OK, setRow(S, signupId, checkInRow(S[signupId], t)), signupId)

\* faulty variant (sensitivity of the properties): a checked-in signup is checked in again
checkInSignupResultRestamp(S, t, signupId) ==
    IF signupId \notin DOMAIN S THEN Result(ErrSignupNotFound, S, NULL)
    ELSE IF S[signupId].status \notin {APPROVED, CHECKED_IN}
    THEN Result(ErrOnlyApproved, S, signupId)
    ELSE Result(OK, setRow(S, signupId, checkInRow(S[signupId], t)), signupId)

checkInSignupResult(S, t, signupId) ==
    IF signupId \notin DOMAIN S THEN Result(ErrSignupNotFound, S, NULL)
    ELSE IF S[signupId].status \notin {APPROVED, CHECKED_IN}
    THEN Result(ErrOnlyApproved, S, signupId)
    ELSE IF S[signupId].status = CHECKED_IN THEN Result(OK, S, signupId)
    ELSE Result(OK, setRow(S, signupId, checkInRow(S[signupId], t)), signupId)

checkInByEventTokenResult(S, t, eventId, userId) ==
    LET id == getExistingSignup(S, userId, eventId) IN
    IF id = NULL THEN Result(ErrSignupNotFound, S, NULL)
    ELSE checkInSignupResult(S, t, id)

caregiverSignupResult(S, E, t, studentId, eventId, caregiverId) ==
    IF caregiverId \notin Users \/ Role(caregiverId) = STUDENT
    THEN Result(ErrOnlyCaregivers, S, NULL)
    ELSE IF studentId \notin Users \/ Role(studentId) # STUDENT
    THEN Result(ErrInvalidStudent, S, NULL)
    ELSE IF Role(caregiverId) = CAREGIVER /\ <<caregiverId, studentId>> \notin caregiverStudent
    THEN Result(ErrNotLinked, S, NULL)
    ELSE createSignupResult(S, E, t, studentId, eventId, caregiverId)

\* faulty variant (sensitivity of the properties): the first failure ends the loop
bulkSignupResultAborts(S, E, t, studentIds, eventId, caregiverId) ==
    LET results[k \in 0..Len(studentIds)] ==
            IF k = 0 THEN [success |-> <<>>, failed |-> <<>>, signups |-> S]
            ELSE LET before == results[k - 1]
                     r == caregiverSignupResult(before.signups, E, t, studentIds[k],
                                                eventId, caregiverId)
                 IN  IF before.failed # <<>> THEN before
                     ELSE IF r.err = OK
                     THEN [before EXCEPT !.success = Append(@, studentIds[k]),
                                         !.signups = r.signups]
                     ELSE [before EXCEPT !.failed = Append(@, [id |-> studentIds[k],
                                                               error |-> r.err])]
    IN  results[Len(studentIds)]

\* bulkSignup: results after the k-th pass of the for loop over studentIds
bulkSignupResult(S, E, t, studentIds, eventId, caregiverId) ==
    LET results[k \in 0..Len(studentIds)] ==
            IF k = 0 THEN [success |-> <<>>, failed |-> <<>>, signups |-> S]
            ELSE LET before == results[k - 1]
                     r == caregiverSignupResult(before.signups, E, t, studentIds[k],
                                                eventId, caregiverId)
                 IN  IF r.err = OK
                     THEN [before EXCEPT !.success = Append(@, studentIds[k]),
                                         !.signups = r.signups]
                     ELSE [before EXCEPT !.failed = Append(@, [id |-> studentIds[k],
                                                               error |-> r.err])]
    IN  results[Len(studentIds)]

----------------------------------------------------------------------------
(* Serialized requests: one action per service call *)

\* a finished call; last names the latest call that changed the table
Call(op, r) ==
    /\ signups' = r.signups
    /\ IF r.signups # signups
       THEN /\ calls < MaxCalls
            /\ calls' = calls + 1
            /\ last' = [op |-> op, id |-> r.id]
       ELSE UNCHANGED <<calls, last>>
    /\ UNCHANGED <<events, now, procs>>

createSignup(userId, eventId, signedUpById) ==
    Call("createSignup",
         createSignupResult(signups, events, now, userId, eventId, signedUpById))

approveSignup(signupId, approverId) ==
    Call("approveSignup", approveSignupResult(signups, events, now, signupId, approverId))

declineSignup(signupId, note) ==
    \E r \in declineSignupResults(signups, events, now, signupId, note) :
        Call("declineSignup", r)

cancelSignup(signupId, userId) ==
    \E r \in cancelSignupResults(signups, events, now, signupId, userId) :
        Call("cancelSignup", r)

checkInSignup(signupId) ==
    Call("checkInSignup", checkInSignupResult(signups, now, signupId))

checkInByEventToken(eventId, userId) ==
    Call("checkInByEventToken", checkInByEventTokenResult(signups, now, eventId, userId))

\* time passes
Tick ==
    /\ now < MaxTime
    /\ now' = now + 1
    /\ UNCHANGED <<events, signups, last, calls, procs>>

Idle == [pc |-> "idle", op |-> "none", userId |-> NULL, eventId |-> NULL,
         signupId |-> NULL, note |-> NoteUndefined, existing |-> NULL,
         status |-> "none", waitlisted |-> <<>>, err |-> OK]

SignupIds == 1..(Len(signups) + 1)

InitWith(configs) ==
    /\ events \in [{1} -> configs]
    /\ signups = <<>>
    /\ now = 0
    /\ last = [op |-> "none", id |-> NULL]
    /\ calls = 0
    /\ procs = [p \in 1..NumProcs |-> Idle]

Init == InitWith(EventRows)

Next ==
    \/ \E u \in Students, e \in DOMAIN events \cup {MissingEventId} : createSignup(u, e, NULL)
    \/ \E id \in SignupIds : approveSignup(id, StaffId)
    \/ \E id \in SignupIds, note \in NoteInputs : declineSignup(id, note)
    \/ \E id \in SignupIds, u \in Users \cup {MissingUserId} : cancelSignup(id, u)
    \/ \E id \in SignupIds : checkInSignup(id)
    \/ \E u \in Students, e \in DOMAIN events : checkInByEventToken(e, u)
    \/ Tick

Spec == Init /\ [][Next]_vars

----------------------------------------------------------------------------
(* Caregiver-assisted and bulk signups, serialized; last keeps the request and the  *)
(* response of a bulk signup                                                        *)

caregiverSignup(studentId, eventId, caregiverId) ==
    Call("caregiverSignup",
         caregiverSignupResult(signups, events, now, studentId, eventId, caregiverId))

bulkSignup(studentIds, eventId, caregiverId) ==
    LET results == bulkSignupResult(signups, events, now, studentIds, eventId, caregiverId)
    IN  /\ calls' = calls + 1
        /\ signups' = results.signups
        /\ last' = [op |-> "bulkSignup", id |-> NULL, studentIds |-> studentIds,
                    eventId |-> eventId, caregiverId |-> caregiverId,
                    success |-> results.success, failed |-> results.failed]
        /\ UNCHANGED <<events, now, procs>>

\* the studentIds of a bulk request: at least one student
StudentLists == UNION {[1..n -> Students] : n \in 1..MaxBulk}

NextBulk ==
    \/ calls < MaxBulkCalls /\ \E u \in Students, e \in DOMAIN events :
          createSignup(u, e, NULL)
    \/ calls < MaxBulkCalls /\ \E s \in Students, c \in {CaregiverId, StaffId},
                                  e \in DOMAIN events : caregiverSignup(s, e, c)
    \/ calls < MaxBulkCalls /\ \E ids \in StudentLists, c \in {CaregiverId, StaffId},
                                  e \in DOMAIN events \cup {MissingEventId} :
          bulkSignup(ids, e, c)
    \/ calls < MaxBulkCalls /\ \E id \in SignupIds, u \in Users : cancelSignup(id, u)

SpecBulk == Init /\ [][NextBulk]_vars

----------------------------------------------------------------------------
(* Two events of capacity 1 with a waitlist, serialized *)

TwoConfigs == {r \in EventRows : r.capacity = 1 /\ r.allowWaitlist}

InitTwo ==
    /\ events \in [EventIds -> TwoConfigs]
    /\ signups = <<>>
    /\ now = 0
    /\ last = [op |-> "none", id |-> NULL]
    /\ calls = 0
    /\ procs = [p \in 1..NumProcs |-> Idle]

SpecTwo == InitTwo /\ [][Next]_vars

----------------------------------------------------------------------------
(* Events on which promoteWaitlist returns early (approval required, no waitlist or *)
(* no capacity), serialized, from the table two self-signups leave                  *)

\* the table after students 1..n signed up for event 1, one after the other
SignedUp(E, n) ==
    LET T[k \in 0..n] ==
            IF k = 0 THEN <<>>
            ELSE createSignupResult(T[k - 1], E, 0, k, 1, NULL).signups
    IN  T[n]

GatedConfigs ==
    {r \in EventRows : r.requiresApproval \/ ~r.allowWaitlist \/ r.capacity = NULL}

InitGated ==
    /\ events \in [{1} -> GatedConfigs]
    /\ signups = SignedUp(events, 2)
    /\ now = 0
    /\ last = [op |-> "createSignup", id |-> Len(signups)]
    /\ calls = 0
    /\ procs = [p \in 1..NumProcs |-> Idle]

SpecGated == InitGated /\ [][Next]_vars

----------------------------------------------------------------------------
(* Concurrent requests: every await of a service call is a step of its own.*)
(* The requests arrive within one tick of the clock, so every row carries  *)
(* the same createdAt and findMany may return the waitlist in any order.   *)

Procs == 1..NumProcs

Goto(p, pc) == procs' = [procs EXCEPT ![p].pc = pc]

\* the call returns or throws: the slot keeps what it was and how it ended
Finish(p, err, id) ==
    procs' = [procs EXCEPT ![p] = [Idle EXCEPT !.pc = "done", !.op = procs[p].op,
                                               !.signupId = id, !.err = err]]

Begin(p, op, first, userId, eventId, signupId, note) ==
    /\ procs[p].pc \in {"idle", "done"}
    /\ calls < MaxRequests
    /\ calls' = calls + 1
    /\ procs' = [procs EXCEPT ![p] = [Idle EXCEPT !.pc = first, !.op = op,
                                                  !.userId = userId, !.eventId = eventId,
                                                  !.signupId = signupId, !.note = note]]
    /\ UNCHANGED <<events, signups, now, last>>

\* createSignup: prisma.event.findUnique and the end-time check
CreateFindEvent(p) ==
    /\ procs[p].pc = "createSignup:event"
    /\ IF procs[p].eventId \notin DOMAIN events THEN Finish(p, ErrEventNotFound, NULL)
       ELSE IF now > events[procs[p].eventId].endTime THEN Finish(p, ErrPastEvent, NULL)
       ELSE Goto(p, "createSignup:existing")
    /\ UNCHANGED <<events, signups, now, last, calls>>

\* createSignup: getExistingSignup and the already-signed-up check
CreateFindExisting(p) ==
    /\ procs[p].pc = "createSignup:existing"
    /\ LET existing == getExistingSignup(signups, procs[p].userId, procs[p].eventId) IN
       IF existing # NULL /\ signups[existing].status \notin {CANCELLED, DECLINED}
       THEN Finish(p, ErrAlreadySignedUp, existing)
       ELSE procs' = [procs EXCEPT ![p].pc = "createSignup:count", ![p].existing = existing]
    /\ UNCHANGED <<events, signups, now, last, calls>>

\* createSignup: the count query and the status decision
CreateCount(p) ==
    /\ procs[p].pc = "createSignup:count"
    /\ LET status == createStatus(events[procs[p].eventId],
                                  approvedCount(signups, procs[p].eventId)) IN
       IF status = ErrAtCapacity THEN Finish(p, ErrAtCapacity, procs[p].existing)
       ELSE procs' = [procs EXCEPT ![p].pc = "createSignup:write", ![p].status = status]
    /\ UNCHANGED <<events, signups, now, last, calls>>

\* createSignup: prisma.eventSignup.update on the existing row, or create
CreateWrite(p) ==
    /\ procs[p].pc = "createSignup:write"
    /\ LET existing == procs[p].existing
           row == newRow(procs[p].userId, procs[p].eventId, NULL, procs[p].status, now) IN
       IF existing # NULL
       THEN /\ signups' = setRow(signups, existing,
                                 resetRow(signups[existing], NULL, procs[p].status, now))
            /\ Finish(p, OK, existing)
       ELSE IF uniqueViolation(signups, row)
       THEN /\ Finish(p, ErrUniqueConstraint, NULL)
            /\ UNCHANGED signups
       ELSE /\ signups' = Append(signups, row)
            /\ Finish(p, OK, Len(signups) + 1)
    /\ UNCHANGED <<events, now, last, calls>>

\* approveSignup: findUnique with the event, and the cancelled/declined check
ApproveFind(p) ==
    /\ procs[p].pc = "approveSignup:find"
    /\ IF procs[p].signupId \notin DOMAIN signups THEN Finish(p, ErrSignupNotFound, NULL)
       ELSE IF signups[procs[p].signupId].status \in {CANCELLED, DECLINED}
       THEN Finish(p, ErrCannotApprove, procs[p].signupId)
       ELSE procs' = [procs EXCEPT ![p].pc = "approveSignup:count",
                                   ![p].eventId = signups[procs[p].signupId].eventId]
    /\ UNCHANGED <<events, signups, now, last, calls>>

\* approveSignup: the count query and the capacity decision
ApproveCount(p) ==
    /\ procs[p].pc = "approveSignup:count"
    /\ LET status == approveStatus(events[procs[p].eventId],
                                   approvedCount(signups, procs[p].eventId)) IN
       IF status = ErrAtCapacity THEN Finish(p, ErrAtCapacity, procs[p].signupId)
       ELSE procs' = [procs EXCEPT ![p].pc = "approveSignup:write", ![p].status = status]
    /\ UNCHANGED <<events, signups, now, last, calls>>

\* approveSignup: either prisma.eventSignup.update
ApproveWrite(p) ==
    /\ procs[p].pc = "approveSignup:write"
    /\ signups' = setRow(signups, procs[p].signupId,
                         approveRow(signups[procs[p].signupId], procs[p].status,
                                    procs[p].userId, now))
    /\ Finish(p, OK, procs[p].signupId)
    /\ UNCHANGED <<events, now, last, calls>>

\* declineSignup: findUnique
DeclineFind(p) ==
    /\ procs[p].pc = "declineSignup:find"
    /\ IF procs[p].signupId \notin DOMAIN signups THEN Finish(p, ErrSignupNotFound, NULL)
       ELSE procs' = [procs EXCEPT ![p].pc = "declineSignup:write",
                                   ![p].eventId = signups[procs[p].signupId].eventId]
    /\ UNCHANGED <<events, signups, now, last, calls>>

\* declineSignup: prisma.eventSignup.update, then promoteWaitlist(signup.eventId)
DeclineWrite(p) ==
    /\ procs[p].pc = "declineSignup:write"
    /\ signups' = setRow(signups, procs[p].signupId,
                         declineRow(signups[procs[p].signupId], procs[p].note, now))
    /\ Goto(p, "promoteWaitlist:event")
    /\ UNCHANGED <<events, now, last, calls>>

\* cancelSignup: findUnique of the signup
CancelFind(p) ==
    /\ procs[p].pc = "cancelSignup:find"
    /\ IF procs[p].signupId \notin DOMAIN signups THEN Finish(p, ErrSignupNotFound, NULL)
       ELSE procs' = [procs EXCEPT ![p].pc = "cancelSignup:user",
                                   ![p].eventId = signups[procs[p].signupId].eventId]
    /\ UNCHANGED <<events, signups, now, last, calls>>

\* cancelSignup: findUnique of the caller and canCancel
CancelFindUser(p) ==
    /\ procs[p].pc = "cancelSignup:user"
    /\ IF procs[p].userId \notin Users THEN Finish(p, ErrUserNotFound, procs[p].signupId)
       ELSE IF ~canCancel(signups[procs[p].signupId], procs[p].userId)
       THEN Finish(p, ErrNoPermission, procs[p].signupId)
       ELSE Goto(p, "cancelSignup:write")
    /\ UNCHANGED <<events, signups, now, last, calls>>

\* cancelSignup: prisma.eventSignup.update, then promoteWaitlist(signup.eventId)
CancelWrite(p) ==
    /\ procs[p].pc = "cancelSignup:write"
    /\ signups' = setRow(signups, procs[p].signupId,
                         cancelRow(signups[procs[p].signupId], now))
    /\ Goto(p, "promoteWaitlist:event")
    /\ UNCHANGED <<events, now, last, calls>>

\* promoteWaitlist: prisma.event.findUnique and the early return
PromoteFindEvent(p) ==
    /\ procs[p].pc = "promoteWaitlist:event"
    /\ IF promoteSkips(events, procs[p].eventId) THEN Finish(p, OK, procs[p].signupId)
       ELSE Goto(p, "promoteWaitlist:count")
    /\ UNCHANGED <<events, signups, now, last, calls>>

\* promoteWaitlist: the count query and slots
PromoteCount(p) ==
    /\ procs[p].pc = "promoteWaitlist:count"
    /\ LET slots == events[procs[p].eventId].capacity
                    - approvedCount(signups, procs[p].eventId) IN
       IF slots <= 0 THEN Finish(p, OK, procs[p].signupId)
       ELSE procs' = [procs EXCEPT ![p].pc = "promoteWaitlist:findMany",
                                   ![p].existing = slots]
    /\ UNCHANGED <<events, signups, now, last, calls>>

\* promoteWaitlist: findMany of the waitlisted rows
PromoteFindMany(p) ==
    /\ procs[p].pc = "promoteWaitlist:findMany"
    /\ \E w \in findWaitlisted(signups, procs[p].eventId, procs[p].existing) :
          IF Len(w) = 0 THEN Finish(p, OK, procs[p].signupId)
          ELSE procs' = [procs EXCEPT ![p].pc = "promoteWaitlist:transaction",
                                      ![p].waitlisted = w]
    /\ UNCHANGED <<events, signups, now, last, calls>>

\* promoteWaitlist: the $transaction of updates
PromoteTransaction(p) ==
    /\ procs[p].pc = "promoteWaitlist:transaction"
    /\ signups' = promoteAll(signups, procs[p].waitlisted, now)
    /\ Finish(p, OK, procs[p].signupId)
    /\ UNCHANGED <<events, now, last, calls>>

\* checkInByEventToken: findUnique by (userId, eventId)
CheckInTokenFind(p) ==
    /\ procs[p].pc = "checkInByEventToken:find"
    /\ LET id == getExistingSignup(signups, procs[p].userId, procs[p].eventId) IN
       IF id = NULL THEN Finish(p, ErrSignupNotFound, NULL)
       ELSE procs' = [procs EXCEPT ![p].pc = "checkInSignup:find", ![p].signupId = id]
    /\ UNCHANGED <<events, signups, now, last, calls>>

\* checkInSignup: findUnique and the status checks
CheckInFind(p) ==
    /\ procs[p].pc = "checkInSignup:find"
    /\ IF procs[p].signupId \notin DOMAIN signups THEN Finish(p, ErrSignupNotFound, NULL)
       ELSE IF signups[procs[p].signupId].status \notin {APPROVED, CHECKED_IN}
       THEN Finish(p, ErrOnlyApproved, procs[p].signupId)
       ELSE IF signups[procs[p].signupId].status = CHECKED_IN
       THEN Finish(p, OK, procs[p].signupId)
       ELSE Goto(p, "checkInSignup:write")
    /\ UNCHANGED <<events, signups, now, last, calls>>

\* checkInSignup: prisma.eventSignup.update
CheckInWrite(p) ==
    /\ procs[p].pc = "checkInSignup:write"
    /\ signups' = setRow(signups, procs[p].signupId,
                         checkInRow(signups[procs[p].signupId], now))
    /\ Finish(p, OK, procs[p].signupId)
    /\ UNCHANGED <<events, now, last, calls>>

\* a request arrives
Request(p) ==
    \/ \E u \in Students, e \in DOMAIN events \cup {MissingEventId} :
          Begin(p, "createSignup", "createSignup:event", u, e, NULL, NoteUndefined)
    \/ \E id \in SignupIds :
          Begin(p, "approveSignup", "approveSignup:find", StaffId, NULL, id, NoteUndefined)
    \/ \E id \in SignupIds, note \in NoteInputs :
          Begin(p, "declineSignup", "declineSignup:find", NULL, NULL, id, note)
    \/ \E id \in SignupIds, u \in Students \cup {MissingUserId} :
          Begin(p, "cancelSignup", "cancelSignup:find", u, NULL, id, NoteUndefined)
    \/ \E id \in SignupIds :
          Begin(p, "checkInSignup", "checkInSignup:find", NULL, NULL, id, NoteUndefined)
    \/ \E u \in Students, e \in DOMAIN events :
          Begin(p, "checkInByEventToken", "checkInByEventToken:find", u, e, NULL,
                NoteUndefined)

ConcConfigs == {r \in EventRows : r.capacity = 1}

InitConc == InitWith(ConcConfigs)

NextConc ==
    \/ \E p \in Procs : Request(p)
    \/ \E p \in Procs : CreateFindEvent(p)
    \/ \E p \in Procs : CreateFindExisting(p)
    \/ \E p \in Procs : CreateCount(p)
    \/ \E p \in Procs : CreateWrite(p)
    \/ \E p \in Procs : ApproveFind(p)
    \/ \E p \in Procs : ApproveCount(p)
    \/ \E p \in Procs : ApproveWrite(p)
    \/ \E p \in Procs : DeclineFind(p)
    \/ \E p \in Procs : DeclineWrite(p)
    \/ \E p \in Procs : CancelFind(p)
    \/ \E p \in Procs : CancelFindUser(p)
    \/ \E p \in Procs : CancelWrite(p)
    \/ \E p \in Procs : PromoteFindEvent(p)
    \/ \E p \in Procs : PromoteCount(p)
    \/ \E p \in Procs : PromoteFindMany(p)
    \/ \E p \in Procs : PromoteTransaction(p)
    \/ \E p \in Procs : CheckInTokenFind(p)
    \/ \E p \in Procs : CheckInFind(p)
    \/ \E p \in Procs : CheckInWrite(p)

SpecConc == InitConc /\ [][NextConc]_vars

----------------------------------------------------------------------------
(* Concurrent requests on a capacity-2 event with two signups waiting beside one     *)
(* taken slot: the table after students 1, 2, 3 signed up and signup 1 was approved  *)
(* again (moved to the waitlist of the full event)                                   *)

\* promoteWaitlist: the $transaction is rejected by the store and rolled back; the
\* error goes up through promoteWaitlist to the caller of cancelSignup / declineSignup
PromoteTransactionFails(p) ==
    /\ procs[p].pc = "promoteWaitlist:transaction"
    /\ Finish(p, ErrTransaction, procs[p].signupId)
    /\ UNCHANGED <<events, signups, now, last, calls>>

PromoteConfigs ==
    {r \in EventRows : r.capacity = 2 /\ ~r.requiresApproval /\ r.allowWaitlist}

InitPromote ==
    /\ events \in [{1} -> PromoteConfigs]
    /\ signups = approveSignupResult(SignedUp(events, 3), events, 0, 1, StaffId).signups
    /\ now = 0
    /\ last = [op |-> "approveSignup", id |-> 1]
    /\ calls = 0
    /\ procs = [p \in 1..NumProcs |-> Idle]

NextPromote ==
    \/ NextConc
    \/ \E p \in Procs : PromoteTransactionFails(p)

SpecPromote == InitPromote /\ [][NextPromote]_vars

----------------------------------------------------------------------------
(* A full event with a waiting signup, requests interleaved *)

WaitingConfigs ==
    {r \in EventRows : r.capacity = 1 /\ ~r.requiresApproval /\ r.allowWaitlist}

\* signup 1 holds the only slot and signup 2 is WAITLISTED
InitWaiting ==
    /\ events \in [{1} -> WaitingConfigs]
    /\ signups = SignedUp(events, 2)
    /\ now = 0
    /\ last = [op |-> "createSignup", id |-> Len(signups)]
    /\ calls = 0
    /\ procs = [p \in 1..NumProcs |-> Idle]

SpecWaiting == InitWaiting /\ [][NextConc]_vars

----------------------------------------------------------------------------
(* The serialized service running forever on one event that fills its free slots from
   the waitlist: subjects sign up, cancel and sign up again without end, a manager
   declines, and whoever holds a slot gives it up sooner or later *)

\* a call of the service that is not counted
Serve(op, r) ==
    /\ signups' = r.signups
    /\ last' = IF r.signups # signups THEN [op |-> op, id |-> r.id] ELSE last
    /\ UNCHANGED <<events, now, calls, procs>>

\* student u signs up, or signs up again
SignUp(u) == Serve("createSignup", createSignupResult(signups, events, now, u, 1, NULL))

\* the subject of signup id, which is neither cancelled nor declined, cancels it
Withdraw(id) ==
    /\ signups[id].status \notin {CANCELLED, DECLINED}
    /\ \E r \in cancelSignupResults(signups, events, now, id, signups[id].userId) :
          Serve("cancelSignup", r)

\* a manager declines signup id, which is neither cancelled nor declined
Decline(id) ==
    /\ signups[id].status \notin {CANCELLED, DECLINED}
    /\ \E r \in declineSignupResults(signups, events, now, id, NoteUndefined) :
          Serve("declineSignup", r)

\* a signup that holds a slot is cancelled or declined
FreeSlot ==
    \E id \in DOMAIN signups :
        /\ signups[id].status \in {APPROVED, CHECKED_IN}
        /\ (Withdraw(id) \/ Decline(id))

InitLive == InitWith(WaitingConfigs)

NextLive ==
    \/ \E u \in Students : SignUp(u)
    \/ \E id \in DOMAIN signups : Withdraw(id)
    \/ \E id \in DOMAIN signups : Decline(id)
    \/ Tick

SpecLive == InitLive /\ [][NextLive]_vars /\ WF_vars(FreeSlot)

----------------------------------------------------------------------------
(* Properties *)

Terminal == {CANCELLED, DECLINED}

\* the signups of event e that hold a slot
Consuming(e) ==
    {i \in DOMAIN signups : signups[i].eventId = e
                            /\ (signups[i].status = APPROVED \/ signups[i].status = CHECKED_IN)}

Waitlisted(e) ==
    {i \in DOMAIN signups : signups[i].eventId = e /\ signups[i].status = WAITLISTED}

AutoFill(e) ==
    /\ events[e].capacity # NULL
    /\ events[e].allowWaitlist
    /\ ~events[e].requiresApproval

\* C1: under any interleaving of the reads and writes of concurrent requests, the
\* number of APPROVED or CHECKED_IN signups of an event with a finite capacity
\* never exceeds that capacity.
C1_CapacityUnderConcurrency ==
    \A e \in DOMAIN events :
        events[e].capacity # NULL => Cardinality(Consuming(e)) <= events[e].capacity

\* what a finished createSignup request got: the status written, or the error
Outcome(p) ==
    IF procs[p].err = OK THEN signups[procs[p].signupId].status ELSE procs[p].err

\* two createSignup requests of two different subjects were the only requests, on the
\* single free slot of a capacity-1 event that needs no approval, and both returned
LastSlotRaceOver ==
    /\ events[1].capacity = 1
    /\ ~events[1].requiresApproval
    /\ calls = 2
    /\ \A p \in {1, 2} : /\ procs[p].pc = "done"
                         /\ procs[p].op = "createSignup"
                         /\ procs[p].err \in {OK, ErrAtCapacity}

\* C2: two concurrent creates of different subjects for the last slot of a capacity-1
\* event without approval: exactly one ends APPROVED, the other ends WAITLISTED
\* (allowWaitlist) or fails with "Event is at capacity"; never both APPROVED.
C2_LastSlotRace ==
    LastSlotRaceOver =>
        \E p, q \in {1, 2} :
            /\ p # q
            /\ Outcome(p) = APPROVED
            /\ Outcome(q) = (IF events[1].allowWaitlist THEN WAITLISTED ELSE ErrAtCapacity)

\* C3: with every call run as one atomic step, the number of APPROVED or CHECKED_IN
\* signups of an event never exceeds its finite capacity, also right after the
\* promotion a cancel or decline triggers.
C3_CapacitySerialized ==
    \A e \in DOMAIN events :
        events[e].capacity # NULL => ~(Cardinality(Consuming(e)) > events[e].capacity)

\* a cancel or decline has promoted a waiting signup into the slot it freed
C3_Witness ==
    /\ last.op \in {"cancelSignup", "declineSignup"}
    /\ events[1].capacity # NULL
    /\ Cardinality(Consuming(1)) = events[1].capacity
    /\ \E i \in Consuming(1) : signups[i].statusNote = NotePromoted

\* the rows a step turned from WAITLISTED into APPROVED
Promoted == {i \in DOMAIN signups : signups[i].status = WAITLISTED
                                     /\ signups'[i].status = APPROVED}

Min(a, b) == IF a < b THEN a ELSE b

\* a cancel or decline of row id, whose promoter found free slots
PromoterRan(id) ==
    /\ calls' = calls + 1
    /\ last'.op \in {"cancelSignup", "declineSignup"}
    /\ last'.id = id
    /\ AutoFill(signups[id].eventId)

\* C4: when the promoter runs with N = capacity - consuming count > 0 free slots, it
\* promotes exactly min(N, number waiting) WAITLISTED signups of the event, and none of
\* them was created later than a signup of the event it leaves WAITLISTED.
C4_FifoPromotion ==
    [][\A id \in DOMAIN signups :
          PromoterRan(id) =>
             LET e == signups[id].eventId
                 waiting == Waitlisted(e) \ {id}
                 N == events[e].capacity - Cardinality(Consuming(e) \ {id})
             IN  N > 0 =>
                    /\ Promoted \subseteq waiting
                    /\ Cardinality(Promoted) = Min(N, Cardinality(waiting))
                    /\ \A i \in Promoted : \A j \in waiting \ Promoted :
                          signups[i].createdAt <= signups[j].createdAt]_vars

\* a cancel or decline promoted a signup and left a later one on the waitlist
C4_Witness ==
    /\ last.op \in {"cancelSignup", "declineSignup"}
    /\ \E i, j \in DOMAIN signups :
          /\ signups[i].status = APPROVED
          /\ signups[i].statusNote = NotePromoted
          /\ signups[j].status = WAITLISTED
          /\ signups[i].createdAt < signups[j].createdAt

Active(i) == signups[i].status \notin Terminal

\* C5: for every (subject, event) pair at most one signup row is neither CANCELLED
\* nor DECLINED, whatever creates, cancels, declines and re-creates ran or raced.
C5_AtMostOneActive ==
    \A i, j \in DOMAIN signups :
        (/\ i # j
         /\ signups[i].userId = signups[j].userId
         /\ signups[i].eventId = signups[j].eventId) => ~(Active(i) /\ Active(j))

\* two creates of one pair raced: one wrote the row, the other hit the unique key
C5_Witness ==
    \E p, q \in Procs :
        /\ procs[p].op = "createSignup" /\ procs[p].err = OK
        /\ procs[q].op = "createSignup" /\ procs[q].err = ErrUniqueConstraint
        /\ Active(procs[p].signupId)

\* C6: right after a cancel or decline, run together with the promotion it triggers,
\* on an event with capacity >= 1, allowWaitlist and no approval: the consuming count
\* equals the capacity or nobody is left WAITLISTED.
C6_FreedCapacityRedistributed ==
    \A e \in DOMAIN events :
        (/\ last.op \in {"cancelSignup", "declineSignup"}
         /\ signups[last.id].eventId = e
         /\ AutoFill(e)
         /\ events[e].capacity >= 1)
        => \/ Cardinality(Consuming(e)) = events[e].capacity
           \/ Waitlisted(e) = {}

\* capacity 1: A signed up (APPROVED), B signed up (WAITLISTED), A cancelled, B is APPROVED
C6_Witness ==
    /\ events[1].capacity = 1
    /\ AutoFill(1)
    /\ last = [op |-> "cancelSignup", id |-> 1]
    /\ Len(signups) = 2
    /\ signups[1].status = CANCELLED
    /\ signups[2].status = APPROVED
    /\ signups[2].statusNote = NotePromoted
    /\ calls = 3

RowsOf(u, e) == {i \in DOMAIN signups : signups[i].userId = u /\ signups[i].eventId = e}

\* C7: the status a create gives is decided by the event's flags and the consuming
\* count: requiresApproval gives PENDING; else no capacity or count < capacity gives
\* APPROVED with approvedAt set; else allowWaitlist gives WAITLISTED and otherwise the
\* create fails with "Event is at capacity" and writes nothing.
C7_CreateStatus ==
    \A u \in Students : \A e \in DOMAIN events :
        LET r == createSignupResult(signups, events, now, u, e, NULL)
            count == Cardinality(Consuming(e))
            Created(status) == /\ r.err = OK
                               /\ r.id \in DOMAIN r.signups
                               /\ r.signups[r.id].userId = u
                               /\ r.signups[r.id].eventId = e
                               /\ r.signups[r.id].status = status
        IN  (now <= events[e].endTime /\ \A i \in RowsOf(u, e) : ~Active(i)) =>
               IF events[e].requiresApproval
               THEN Created(PENDING) /\ r.signups[r.id].approvedAt = NULL
               ELSE IF events[e].capacity = NULL \/ count < events[e].capacity
               THEN Created(APPROVED) /\ r.signups[r.id].approvedAt = now
               ELSE IF events[e].allowWaitlist
               THEN Created(WAITLISTED) /\ r.signups[r.id].approvedAt = NULL
               ELSE r.err = ErrAtCapacity /\ r.signups = signups

\* a create on a full event put the subject on the waitlist
C7_Witness ==
    /\ last.op = "createSignup"
    /\ signups[last.id].status = WAITLISTED
    /\ ~events[1].requiresApproval
    /\ Cardinality(Consuming(1)) = events[1].capacity

\* C8: create reports the first failure in the order: event not found, event ended,
\* subject already signed up (a signup neither CANCELLED nor DECLINED), and only then
\* the capacity decision.
C8_CreateErrorOrder ==
    \A u \in Students : \A e \in DOMAIN events \cup {MissingEventId} :
        LET r == createSignupResult(signups, events, now, u, e, NULL) IN
        IF e \notin DOMAIN events THEN r.err = ErrEventNotFound
        ELSE IF now > events[e].endTime THEN r.err = ErrPastEvent
        ELSE IF \E i \in RowsOf(u, e) : Active(i) THEN r.err = ErrAlreadySignedUp
        ELSE /\ r.err \in {OK, ErrAtCapacity}
             /\ r.err = ErrAtCapacity =>
                   /\ ~events[e].requiresApproval /\ ~events[e].allowWaitlist
                   /\ events[e].capacity # NULL
                   /\ Cardinality(Consuming(e)) >= events[e].capacity

\* the event has ended, it is full, and a subject who is already signed up tries again:
\* the create reports the ended event
C8_Witness ==
    /\ now > events[1].endTime
    /\ events[1].capacity # NULL
    /\ ~events[1].allowWaitlist /\ ~events[1].requiresApproval
    /\ Cardinality(Consuming(1)) >= events[1].capacity
    /\ \E u \in Students :
          /\ \E i \in RowsOf(u, 1) : Active(i)
          /\ createSignupResult(signups, events, now, u, 1, NULL).err = ErrPastEvent

\* C9: approve of a PENDING or WAITLISTED signup decides from the count at approval
\* time: on a full event it writes WAITLISTED with the capacity note (allowWaitlist) or
\* fails with "Event is at capacity"; otherwise it writes APPROVED, clears the note and
\* records when and by whom.
C9_ApproveDecision ==
    \A id \in DOMAIN signups :
        LET row == signups[id]
            e == row.eventId
            r == approveSignupResult(signups, events, now, id, StaffId)
            full == /\ events[e].capacity # NULL
                    /\ Cardinality(Consuming(e)) >= events[e].capacity
        IN  row.status \in {PENDING, WAITLISTED} =>
               IF full /\ events[e].allowWaitlist
               THEN /\ r.err = OK
                    /\ r.signups = [signups EXCEPT ![id].status = WAITLISTED,
                                                   ![id].statusNote = NoteWaitlist]
               ELSE IF full
               THEN r.err = ErrAtCapacity /\ r.signups = signups
               ELSE /\ r.err = OK
                    /\ r.signups = [signups EXCEPT ![id].status = APPROVED,
                                                   ![id].statusNote = NoNote,
                                                   ![id].approvedAt = now,
                                                   ![id].approvedById = StaffId]

\* an approve on a full event moved a PENDING signup to the waitlist
C9_Witness ==
    /\ last.op = "approveSignup"
    /\ events[1].requiresApproval
    /\ signups[last.id].status = WAITLISTED
    /\ signups[last.id].statusNote = NoteWaitlist
    /\ Cardinality(Consuming(1)) = events[1].capacity

\* C10: check-in, by signup id or by (event, caller), succeeds from APPROVED with
\* checkedInAt stamped and fails with "Only approved signups can be checked in" from
\* PENDING, WAITLISTED, CANCELLED and DECLINED; no step takes a signup to CHECKED_IN
\* from any status but APPROVED.
C10_CheckInOnlyFromApproved ==
    [][/\ \A i \in DOMAIN signups' :
             (signups'[i].status = CHECKED_IN
              /\ (i \in DOMAIN signups => signups[i].status # CHECKED_IN))
             => /\ i \in DOMAIN signups
                /\ signups[i].status = APPROVED
                /\ signups'[i].checkedInAt = now
                /\ last'.op \in {"checkInSignup", "checkInByEventToken"}
       /\ \A i \in DOMAIN signups :
             LET byId == checkInSignupResult(signups, now, i)
                 byToken == checkInByEventTokenResult(signups, now, signups[i].eventId,
                                                      signups[i].userId)
                 checkedIn == [signups EXCEPT ![i].status = CHECKED_IN,
                                              ![i].checkedInAt = now]
             IN  /\ signups[i].status = APPROVED =>
                       /\ byId.err = OK /\ byId.signups = checkedIn
                       /\ byToken.err = OK /\ byToken.signups = checkedIn
                 /\ signups[i].status \in {PENDING, WAITLISTED, CANCELLED, DECLINED} =>
                       /\ byId.err = ErrOnlyApproved /\ byId.signups = signups
                       /\ byToken.err = ErrOnlyApproved /\ byToken.signups = signups]_vars

\* a subject checked in with the event's check-in credential
C10_Witness ==
    /\ last.op = "checkInByEventToken"
    /\ signups[last.id].status = CHECKED_IN
    /\ signups[last.id].checkedInAt # NULL

\* C11: check-in of a signup that is already CHECKED_IN returns it without an error and
\* writes nothing, by signup id and by (event, caller) alike, so a second check-in at
\* any later time leaves the table the first check-in left.
C11_CheckInIdempotent ==
    \A i \in DOMAIN signups : \A t \in Time :
        LET e == signups[i].eventId
            u == signups[i].userId
            once == checkInSignupResult(signups, now, i)
            twice == checkInSignupResult(once.signups, t, i)
            tokenTwice == checkInByEventTokenResult(once.signups, t, e, u)
        IN  /\ signups[i].status = CHECKED_IN =>
                  /\ once.err = OK /\ once.id = i /\ once.signups = signups
                  /\ checkInByEventTokenResult(signups, t, e, u) = Result(OK, signups, i)
            /\ (signups[i].status \in {APPROVED, CHECKED_IN} /\ t >= now) =>
                  /\ twice.err = OK /\ twice.signups = once.signups
                  /\ tokenTwice.err = OK /\ tokenTwice.signups = once.signups
                  /\ twice.signups[i].status = CHECKED_IN

\* a signup was checked in and the clock has moved on: a second check-in would be seen
C11_Witness ==
    /\ last.op \in {"checkInSignup", "checkInByEventToken"}
    /\ signups[last.id].status = CHECKED_IN
    /\ signups[last.id].checkedInAt < now
    /\ checkInSignupResult(signups, now, last.id) = Result(OK, signups, last.id)

\* what a create decides for event e from its flags and the consuming count: the status,
\* or "Event is at capacity"
Decision(e) ==
    IF events[e].requiresApproval THEN PENDING
    ELSE IF events[e].capacity = NULL \/ Cardinality(Consuming(e)) < events[e].capacity
    THEN APPROVED
    ELSE IF events[e].allowWaitlist THEN WAITLISTED ELSE ErrAtCapacity

\* C12: a create for a pair whose signup is CANCELLED or DECLINED updates that same row
\* (same id, no second row, the other rows untouched) and gives it the status decided
\* from the event's flags and the consuming count now, or fails with "Event is at
\* capacity"; no create step adds a row for a pair that has one.
C12_ResignupReusesRow ==
    [][/\ \A i \in DOMAIN signups :
             LET e == signups[i].eventId
                 r == createSignupResult(signups, events, now, signups[i].userId, e, NULL)
             IN  (signups[i].status \in Terminal /\ now <= events[e].endTime) =>
                    IF Decision(e) = ErrAtCapacity
                    THEN r.err = ErrAtCapacity /\ r.signups = signups
                    ELSE /\ r.err = OK
                         /\ r.id = i
                         /\ DOMAIN r.signups = DOMAIN signups
                         /\ r.signups[i].status = Decision(e)
                         /\ r.signups[i].cancelledAt = NULL
                         /\ \A j \in DOMAIN signups \ {i} : r.signups[j] = signups[j]
       /\ (calls' = calls + 1 /\ last'.op = "createSignup") =>
             LET id == last'.id IN
             RowsOf(signups'[id].userId, signups'[id].eventId) # {} =>
                /\ Len(signups') = Len(signups)
                /\ signups[id].status \in Terminal
                /\ signups'[id].status = Decision(signups[id].eventId)]_vars

\* capacity 1: A signed up (APPROVED) and cancelled, B took the slot, A signed up again
\* and is WAITLISTED on the row A had
C12_Witness ==
    /\ events[1].capacity = 1
    /\ AutoFill(1)
    /\ last = [op |-> "createSignup", id |-> 1]
    /\ calls = 4
    /\ Len(signups) = 2
    /\ signups[1].status = WAITLISTED /\ signups[1].cancelledAt = NULL
    /\ signups[2].status = APPROVED /\ signups[2].statusNote = NoNote

\* C13: a cancel succeeds exactly when the caller is the signup's subject, the one who
\* signed the subject up, the owner of the signup's event, a staff member, or a
\* caregiver linked to the subject; for every other caller it fails with "You do not
\* have permission to cancel this signup".
C13_CancelPermission ==
    \A i \in DOMAIN signups : \A u \in Users :
        LET row == signups[i]
            allowed == \/ u = row.userId
                       \/ u = row.signedUpById
                       \/ u = createdById[row.eventId]
                       \/ Role(u) = STAFF
                       \/ (Role(u) = CAREGIVER /\ <<u, row.userId>> \in caregiverStudent)
        IN  \A r \in cancelSignupResults(signups, events, now, i, u) :
               r.err = (IF allowed THEN OK ELSE ErrNoPermission)

\* C14: a bulk signup goes through every listed subject in list order: succeeded plus
\* failed entries make up the input list, every entry gets what a single
\* caregiver-assisted create gets on the table the entries before it left, and a
\* failed entry neither ends the batch nor undoes or blocks the other entries.
C14_BulkIndependent ==
    [][(last'.op = "bulkSignup" /\ calls' = calls + 1) =>
          LET ids == last'.studentIds
              e == last'.eventId
              c == last'.caregiverId
              T[k \in 0..Len(ids)] ==
                  IF k = 0 THEN signups
                  ELSE caregiverSignupResult(T[k - 1], events, now, ids[k], e, c).signups
              single(k) == caregiverSignupResult(T[k - 1], events, now, ids[k], e, c)
              succeeded(k) == Cardinality({j \in 1..k : single(j).err = OK})
          IN  /\ Len(last'.success) + Len(last'.failed) = Len(ids)
              /\ signups' = T[Len(ids)]
              /\ \A k \in 1..Len(ids) :
                    IF single(k).err = OK
                    THEN /\ succeeded(k) \in DOMAIN last'.success
                         /\ last'.success[succeeded(k)] = ids[k]
                    ELSE /\ (k - succeeded(k)) \in DOMAIN last'.failed
                         /\ last'.failed[k - succeeded(k)]
                               = [id |-> ids[k], error |-> single(k).err]]_vars

\* a bulk signup of three subjects, one of whom had signed up before: two succeeded,
\* one is in the failed list as already signed up, and the two rows are there
C14_Witness ==
    /\ last.op = "bulkSignup"
    /\ Len(last.studentIds) = 3
    /\ Len(last.success) = 2
    /\ Len(last.failed) = 1
    /\ last.failed[1].error = ErrAlreadySignedUp
    /\ Len(signups) = 3
    /\ \E i \in DOMAIN signups : /\ signups[i].userId = last.failed[1].id
                                  /\ signups[i].signedUpById = NULL
                                  /\ Active(i)
    /\ \A k \in DOMAIN last.success :
          \E i \in DOMAIN signups : /\ signups[i].userId = last.success[k]
                                    /\ signups[i].signedUpById = StaffId

\* C15: on an event that requires approval a signup becomes APPROVED only by an approve
\* of that signup, never by a create or by the promoter run after a cancel or decline;
\* and on an event that requires approval, has no capacity limit or allows no waitlist
\* a cancel or decline changes no signup but its own.
C15_GatedNeverAutoPromotes ==
    [][/\ \A i \in DOMAIN signups' :
             (/\ events[signups'[i].eventId].requiresApproval
              /\ signups'[i].status = APPROVED
              /\ (i \in DOMAIN signups => signups[i].status # APPROVED))
             => /\ calls' = calls + 1
                /\ last'.op = "approveSignup"
                /\ last'.id = i
       /\ (calls' = calls + 1 /\ last'.op \in {"cancelSignup", "declineSignup"}) =>
             LET e == signups[last'.id].eventId IN
             (events[e].requiresApproval \/ events[e].capacity = NULL
              \/ ~events[e].allowWaitlist) =>
                /\ DOMAIN signups' = DOMAIN signups
                /\ \A i \in DOMAIN signups \ {last'.id} : signups'[i] = signups[i]]_vars

\* an event that requires approval: a cancel or decline freed a slot while a signup is
\* WAITLISTED, and the signup is still WAITLISTED
C15_Witness ==
    /\ events[1].requiresApproval
    /\ events[1].allowWaitlist
    /\ events[1].capacity # NULL
    /\ last.op \in {"cancelSignup", "declineSignup"}
    /\ signups[last.id].status \in Terminal
    /\ signups[last.id].approvedAt # NULL
    /\ Cardinality(Consuming(1)) < events[1].capacity
    /\ Waitlisted(1) # {}

\* C16: the writes of the batch one promoter run selected take effect in one step: the
\* step that ends the run's transaction either turns every signup of the batch to
\* APPROVED and touches no other row, or fails and leaves the table as it was, so no
\* state between the requests' steps holds a batch promoted in part.
C16_PromotionAllOrNothing ==
    [][\A p \in Procs :
          (/\ procs[p].pc = "promoteWaitlist:transaction"
           /\ procs'[p].pc # "promoteWaitlist:transaction") =>
             LET batch == Range(procs[p].waitlisted) IN
             \/ /\ procs'[p].err = OK
                /\ \A i \in batch : /\ signups'[i].status = APPROVED
                                     /\ signups'[i].approvedAt = now
                                     /\ signups'[i].statusNote = NotePromoted
                /\ DOMAIN signups' = DOMAIN signups
                /\ \A i \in DOMAIN signups \ batch : signups'[i] = signups[i]
             \/ /\ procs'[p].err # OK
                /\ signups' = signups]_vars

\* the only request so far was a cancel that freed both slots: its promoter run
\* promoted the two waiting signups in one batch
C16_Witness ==
    /\ calls = 1
    /\ \E p \in Procs : /\ procs[p].pc = "done"
                         /\ procs[p].op \in {"cancelSignup", "declineSignup"}
                         /\ procs[p].err = OK
    /\ Cardinality({i \in DOMAIN signups : /\ signups[i].status = APPROVED
                                            /\ signups[i].statusNote = NotePromoted}) = 2

\* C17: approve of a CANCELLED or DECLINED signup fails with "Cannot approve a
\* cancelled or declined signup"; and whenever a create, approve, cancel, check-in or
\* decline returns a failure, it is one of the failures of that operation and the
\* table is what it was before the call (no row changed, nobody promoted).
C17_FailuresChangeNothing ==
    /\ \A u \in Students : \A e \in DOMAIN events \cup {MissingEventId} :
          LET r == createSignupResult(signups, events, now, u, e, NULL) IN
          r.err # OK =>
             /\ r.signups = signups
             /\ r.err \in {ErrEventNotFound, ErrPastEvent, ErrAlreadySignedUp, ErrAtCapacity}
    /\ \A id \in SignupIds :
          LET r == approveSignupResult(signups, events, now, id, StaffId) IN
          /\ (id \in DOMAIN signups /\ signups[id].status \in Terminal) =>
                r.err = ErrCannotApprove
          /\ r.err # OK =>
                /\ r.signups = signups
                /\ r.err \in {ErrSignupNotFound, ErrCannotApprove, ErrAtCapacity}
    /\ \A id \in SignupIds : \A u \in Users \cup {MissingUserId} :
          \A r \in cancelSignupResults(signups, events, now, id, u) :
             r.err # OK =>
                /\ r.signups = signups
                /\ r.err \in {ErrSignupNotFound, ErrUserNotFound, ErrNoPermission}
    /\ \A id \in SignupIds :
          LET r == checkInSignupResult(signups, now, id) IN
          r.err # OK =>
             /\ r.signups = signups
             /\ r.err \in {ErrSignupNotFound, ErrOnlyApproved}
    /\ \A u \in Students : \A e \in DOMAIN events :
          LET r == checkInByEventTokenResult(signups, now, e, u) IN
          r.err # OK =>
             /\ r.signups = signups
             /\ r.err \in {ErrSignupNotFound, ErrOnlyApproved}
    /\ \A id \in SignupIds : \A note \in NoteInputs :
          \A r \in declineSignupResults(signups, events, now, id, note) :
             r.err # OK => (r.signups = signups /\ r.err = ErrSignupNotFound)

\* a signup was declined on an event with a free slot, and approving it is refused
C17_Witness ==
    /\ last.op = "declineSignup"
    /\ signups[last.id].status = DECLINED
    /\ LET e == signups[last.id].eventId IN
       events[e].capacity = NULL \/ Cardinality(Consuming(e)) < events[e].capacity
    /\ approveSignupResult(signups, events, now, last.id, StaffId)
          = Result(ErrCannotApprove, signups, last.id)

\* C18: a create, approve, decline, cancel or check-in on a signup of one event,
\* with the promotion it triggers, changes no row of a signup of another event, and
\* no step changes an event's capacity, requiresApproval, allowWaitlist or end time.
C18_EventsIndependent ==
    [][/\ events' = events
       /\ signups' # signups =>
             LET e == signups'[last'.id].eventId IN
             /\ calls' = calls + 1
             /\ \A i \in DOMAIN signups :
                   signups[i].eventId # e => (i \in DOMAIN signups' /\ signups'[i] = signups[i])
             /\ \A i \in DOMAIN signups' \ DOMAIN signups : signups'[i].eventId = e]_vars

\* a cancel emptied an event that fills its free slots from the waitlist, while a signup
\* of the other event is WAITLISTED, and stays WAITLISTED
C18_Witness ==
    /\ last.op = "cancelSignup"
    /\ \E e, f \in DOMAIN events :
          /\ e # f
          /\ signups[last.id].eventId = e
          /\ signups[last.id].status = CANCELLED
          /\ AutoFill(e)
          /\ Consuming(e) = {}
          /\ Waitlisted(f) # {}

\* the engine that runs the promoter after a cancel or decline only when the signup
\* held a slot (was APPROVED or CHECKED_IN) before the call
promoteIfConsuming(S, updated, E, signupId, t) ==
    IF S[signupId].status \in {APPROVED, CHECKED_IN}
    THEN promoteWaitlist(updated, E, S[signupId].eventId, t)
    ELSE {updated}

declineSignupOptimised(S, E, t, signupId, note) ==
    IF signupId \notin DOMAIN S THEN {Result(ErrSignupNotFound, S, NULL)}
    ELSE LET updated == setRow(S, signupId, declineRow(S[signupId], note, t))
         IN  {Result(OK, P, signupId) : P \in promoteIfConsuming(S, updated, E, signupId, t)}

cancelSignupOptimised(S, E, t, signupId, userId) ==
    IF signupId \notin DOMAIN S THEN {Result(ErrSignupNotFound, S, NULL)}
    ELSE IF userId \notin Users THEN {Result(ErrUserNotFound, S, signupId)}
    ELSE IF ~canCancel(S[signupId], userId) THEN {Result(ErrNoPermission, S, signupId)}
    ELSE LET updated == setRow(S, signupId, cancelRow(S[signupId], t))
         IN  {Result(OK, P, signupId) : P \in promoteIfConsuming(S, updated, E, signupId, t)}

\* C19: with the configuration fixed and the calls serialized, the engine that runs the
\* promoter only after the cancel or decline of a signup that was APPROVED or
\* CHECKED_IN gives the same signup statuses as the engine that runs it after every
\* cancel and decline: from every table the engine reaches, every cancel and every
\* decline leaves the same tables under both.
C19_PromotionTriggerOptimisation ==
    \A id \in DOMAIN signups :
        /\ \A u \in Users :
              cancelSignupOptimised(signups, events, now, id, u)
                 = cancelSignupResults(signups, events, now, id, u)
        /\ \A note \in NoteInputs :
              declineSignupOptimised(signups, events, now, id, note)
                 = declineSignupResults(signups, events, now, id, note)

\* C20: an approve of a signup that is APPROVED or CHECKED_IN never changes the
\* signup's status: it neither moves an APPROVED attendee to the waitlist of a full
\* event nor turns CHECKED_IN into APPROVED or WAITLISTED.
C20_ApproveOnlyFromPendingOrWaitlisted ==
    [][\A i \in DOMAIN signups :
          (/\ calls' = calls + 1
           /\ last'.op = "approveSignup"
           /\ last'.id = i
           /\ signups[i].status \in {APPROVED, CHECKED_IN})
          => signups'[i].status = signups[i].status]_vars

\* C21: with every call run as one atomic step, on an event with capacity >= 1,
\* allowWaitlist and no approval: in every reachable state, if a signup of the event is
\* WAITLISTED then the consuming count equals the capacity.
C21_NoIdleSlotWhileWaiting ==
    \A e \in DOMAIN events :
        (AutoFill(e) /\ events[e].capacity >= 1 /\ Waitlisted(e) # {})
        => Cardinality(Consuming(e)) = events[e].capacity

\* the step is the write of the create of request p on the existing row i
CreateWrites(p, i) ==
    /\ procs[p].pc = "createSignup:write"
    /\ procs'[p].pc = "done"
    /\ procs[p].existing = i

\* C22: under any interleaving of the reads and writes of concurrent requests, a signup
\* whose stored status is CANCELLED or DECLINED leaves that status only by the write of
\* a create; an approve, a check-in or a promoter run that read the signup before it
\* was cancelled or declined never overwrites CANCELLED or DECLINED.
C22_RevivedOnlyByCreate ==
    [][\A i \in DOMAIN signups :
          (signups[i].status \in Terminal /\ signups'[i].status \notin Terminal)
          => \E p \in Procs : CreateWrites(p, i)]_vars

\* the tables a cancel (by a staff member) or a decline of row k can leave
FreedBy(S, k) ==
    {r.signups : r \in cancelSignupResults(S, events, now, k, StaffId)
                       \cup declineSignupResults(S, events, now, k, NoteUndefined)}

\* the results of the creates that put a signup on the waitlist of event e
JoinsWaitlist(e) ==
    {r \in {createSignupResult(signups, events, now, u, e, NULL) : u \in Students} :
        r.err = OK /\ r.signups[r.id].status = WAITLISTED}

\* C23: the waitlist is served in the order in which the signups joined it: when a
\* signup joins the waitlist (by a first signup or by signing up again on its old row)
\* while another signup of the event is already WAITLISTED, the cancel or decline that
\* follows never promotes the later joiner and leaves the earlier one WAITLISTED.
\* (The earlier joiner is taken to have been created before the clock reading of the
\* join, so that the two joins are not simultaneous.)
C23_WaitlistJoinOrder ==
    \A e \in DOMAIN events : \A j \in Waitlisted(e) : \A r \in JoinsWaitlist(e) :
        signups[j].createdAt < now =>
            \A k \in DOMAIN r.signups : \A T \in FreedBy(r.signups, k) :
                ~(T[r.id].status = APPROVED /\ T[j].status = WAITLISTED)

\* C23 as amended: the waitlist is served in the order of the creation time of the
\* signup records, and signing up again keeps the creation time of the reused record:
\* the cancel or decline that follows a join of the waitlist never promotes a signup
\* created later than one it leaves WAITLISTED.
C23_WaitlistCreationOrder ==
    \A e \in DOMAIN events : \A r \in JoinsWaitlist(e) :
        /\ r.id \in DOMAIN signups => r.signups[r.id].createdAt = signups[r.id].createdAt
        /\ r.id \notin DOMAIN signups => r.signups[r.id].createdAt = now
        /\ \A k \in DOMAIN r.signups : \A T \in FreedBy(r.signups, k) :
              \A i, j \in Waitlisted(e) \cup {r.id} :
                 (T[i].status = APPROVED /\ T[j].status = WAITLISTED)
                 => r.signups[i].createdAt <= r.signups[j].createdAt

\* a signup waits on a full event that fills its free slots from the waitlist, and a
\* cancelled signup of the event that was created earlier can sign up again
C23_Witness ==
    \E e \in DOMAIN events : \E j \in Waitlisted(e) : \E r \in JoinsWaitlist(e) :
        /\ AutoFill(e)
        /\ r.id \in DOMAIN signups
        /\ signups[r.id].status = CANCELLED
        /\ signups[r.id].createdAt < signups[j].createdAt
        /\ Consuming(e) # {}

\* C24: on an event that fills its free slots from the waitlist, under any
\* interleaving of the steps of concurrent requests (the write of a cancel and the
\* promoter run that follows it being separate steps), the write of a create never
\* stores a new signup as APPROVED while another signup of the event is WAITLISTED.
C24_NoWaitlistJumping ==
    [][\A p \in Procs :
          (/\ procs[p].pc = "createSignup:write"
           /\ procs[p].existing = NULL
           /\ Len(signups') = Len(signups) + 1
           /\ signups'[Len(signups')].status = APPROVED
           /\ AutoFill(procs[p].eventId))
          => Waitlisted(procs[p].eventId) = {}]_vars

\* C26: with the calls serialized, once a signup is CANCELLED or DECLINED no cancel
\* and no decline changes its status, its note or its cancellation time; the record
\* changes only by a create for its subject.
C26_TerminalLeftOnlyByCreate ==
    [][\A i \in DOMAIN signups :
          (signups[i].status \in Terminal /\ signups'[i] # signups[i])
          => (last'.op = "createSignup" /\ last'.id = i)]_vars

\* C27: with the calls serialized, in every reachable state the cancellation time of a
\* signup is set if and only if its status is CANCELLED or DECLINED.
C27_CancelledAtTracksStatus ==
    \A i \in DOMAIN signups :
        signups[i].cancelledAt # NULL <=> signups[i].status \in Terminal

\* the only signup of the table was cancelled or declined and signed up again on its
\* old row: the row is active and has no cancellation time
C27_Witness ==
    /\ last = [op |-> "createSignup", id |-> 1]
    /\ Len(signups) = 1
    /\ calls = 3
    /\ signups[1].status \in {PENDING, APPROVED}
    /\ signups[1].cancelledAt = NULL

\* C28: a create that reuses a CANCELLED or DECLINED record leaves nothing of the
\* record's earlier lifecycle: cancellation time and note cleared, check-in time and
\* approver cleared, approval time set if and only if the new status is APPROVED; so
\* in every reachable state a check-in time is present only on a signup that is
\* CHECKED_IN, CANCELLED or DECLINED.
C28_ResignupResetsRecord ==
    /\ \A i \in DOMAIN signups :
          signups[i].checkedInAt # NULL => signups[i].status \in {CHECKED_IN} \cup Terminal
    /\ \A i \in DOMAIN signups :
          signups[i].status \in Terminal =>
             LET r == createSignupResult(signups, events, now, signups[i].userId,
                                         signups[i].eventId, NULL) IN
             (r.err = OK /\ r.id = i) =>
                /\ r.signups[i].cancelledAt = NULL
                /\ r.signups[i].statusNote = NoNote
                /\ r.signups[i].checkedInAt = NULL
                /\ r.signups[i].approvedById = NULL
                /\ r.signups[i].approvedAt # NULL <=> r.signups[i].status = APPROVED

\* C29: a create, an approve and a check-in change at most the signup they are about;
\* a cancel and a decline change the signup they are about and otherwise only signups
\* of the same event that were WAITLISTED, each to APPROVED; no step removes a row.
C29_OnlyPromoterTouchesOthers ==
    [][/\ Len(signups') >= Len(signups)
       /\ \A i \in DOMAIN signups :
             (signups'[i] # signups[i] /\ i # last'.id) =>
                /\ last'.op \in {"cancelSignup", "declineSignup"}
                /\ signups[i].eventId = signups[last'.id].eventId
                /\ signups[i].status = WAITLISTED
                /\ signups'[i].status = APPROVED
       /\ \A i \in DOMAIN signups' \ DOMAIN signups :
             last'.op = "createSignup" /\ last'.id = i /\ Len(signups') = Len(signups) + 1]_vars

\* a decline freed a slot and the promoter approved another signup of the event, while
\* a third row of the table is as it was
C29_Witness ==
    /\ last.op = "declineSignup"
    /\ signups[last.id].status = DECLINED
    /\ \E i, j \in DOMAIN signups \ {last.id} :
          /\ i # j
          /\ signups[i].status = APPROVED
          /\ signups[i].statusNote = NotePromoted
          /\ signups[i].approvedAt = now
          /\ signups[j].status = WAITLISTED

AheadOf(i) ==
    {j \in Waitlisted(signups[i].eventId) \ {i} :
        signups[j].createdAt <= signups[i].createdAt}

====
